---- MODULE Spec2Model ----
(***************************************************************************)
(* Hand-tracking pipeline and chemistry scenes of the "Touchless" virtual  *)
(* laboratory.                                                             *)
(*                                                                         *)
(* Numbers.  Normalised camera coordinates, world coordinates, liquid      *)
(* levels and strengths are fixed-point integers in units of 1/1000;       *)
(* angles are in milliradians.  Comparisons of a Euclidean distance with a *)
(* threshold are made on the squares, which is the same comparison on the  *)
(* reals.  JavaScript runs every callback to completion, so each callback  *)
(* (detection frame, render frame, promise continuation, effect cleanup)   *)
(* is one action.                                                          *)
(***************************************************************************)
EXTENDS Integers, Sequences, FiniteSets, TLC

VARIABLES
    \* ---- HandTracker component (src/components/HandTracker.tsx)
    mounted,        \* the component instance is mounted
    initPc,         \* position of initMediaPipe: "resolving" | "creating" | "started" | "failed"
    landmarkerRef,  \* landmarkerRef.current is non-null
    camPc,          \* position of startWebcam: "idle" | "pending" | "attached" | "dropped" | "denied"
    stream,         \* the MediaStream of getUserMedia: "none" | "live" | "stopped"
    videoRef,       \* videoRef.current (and canvasRef.current) is non-null
    srcObject,      \* videoRef.current.srcObject holds the stream
    onloadeddata,   \* the loadeddata handler is registered and has not fired yet
    isReady,        \* React state isReady
    requestRef,     \* an animation frame for predict is scheduled
    stateRef,       \* stateRef.current : TrackingState
    frames,         \* number of detection frames that called detectForVideo
    \* ---- page component owning the tracker and the scene
    handStateRef,   \* handStateRef.current : TrackingState
    hsRead,         \* `hs`, the TrackingState the latest render callback read
    \* ---- chemistry scenes
    scene,          \* which scene controller is mounted: "lab" | "page" | "none"
    items,          \* React state `items` / `testTubes`, in array order
    released,       \* indices whose release branch ran in the latest render frame
    renders,        \* number of render frames of the scene so far
    pourN,          \* number of render frames with tube1 held and tilted over beaker1
    particles,      \* React state `particles` of the pouring scene, oldest first
    mounts,         \* number of times the scene has been mounted
    \* ---- solar-system scene
    targetIndex,    \* React state targetIndex
    camRadius,      \* camState.current.radius
    camPhi          \* camState.current.phi

trackerVars == <<mounted, initPc, landmarkerRef, camPc, stream, videoRef,
                 srcObject, onloadeddata, isReady, requestRef, stateRef, frames>>
sceneVars ==
    <<scene, items, released, renders, pourN, particles, mounts, targetIndex, camRadius, camPhi>>
vars == <<mounted, initPc, landmarkerRef, camPc, stream, videoRef, srcObject,
          onloadeddata, isReady, requestRef, stateRef, frames, handStateRef,
          hsRead, scene, items, released, renders, pourN, particles, mounts,
          targetIndex, camRadius, camPhi>>

(***************************************************************************)
(* Arithmetic helpers                                                      *)
(***************************************************************************)
Abs(n) == IF n < 0 THEN -n ELSE n
Max(a, b) == IF a > b THEN a ELSE b
Min(a, b) == IF a < b THEN a ELSE b

\* Division rounding toward zero (fixed-point image of a float product).
Trunc(n, d) == IF n >= 0 THEN n \div d ELSE -((-n) \div d)

RECURSIVE SqrtSearch(_, _, _)
SqrtSearch(n, lo, hi) ==
    IF lo >= hi THEN lo
    ELSE LET mid == (lo + hi + 1) \div 2
         IN IF mid * mid <= n THEN SqrtSearch(n, mid, hi)
                              ELSE SqrtSearch(n, lo, mid - 1)

\* floor(sqrt(n)) for 0 <= n < 2^30
ISqrt(n) == SqrtSearch(n, 0, 32767)

Vec(x, y, z) == [x |-> x, y |-> y, z |-> z]
VAdd(a, b) == Vec(a.x + b.x, a.y + b.y, a.z + b.z)
VSub(a, b) == Vec(a.x - b.x, a.y - b.y, a.z - b.z)
VScale(a, k) == Vec(a.x * k, a.y * k, a.z * k)

\* Vector3.distanceTo, squared
DistSq(a, b) ==
    (a.x - b.x) * (a.x - b.x) + (a.y - b.y) * (a.y - b.y) + (a.z - b.z) * (a.z - b.z)

\* Vector3.distanceTo, rounded down to the unit
distanceTo(a, b) == ISqrt(DistSq(a, b))

\* Math.hypot(a.x - b.x, a.y - b.y), squared
HypotSq(a, b) == (a.x - b.x) * (a.x - b.x) + (a.y - b.y) * (a.y - b.y)

(***************************************************************************)
(* Program constants                                                       *)
(***************************************************************************)
PINCH_THRESHOLD == 50          \* 0.05
SMOOTHING_FACTOR == 15         \* 0.15, in hundredths
ZoomSpread == 200              \* 0.2, palm distance above which two hands zoom
ThumbExtension == 50           \* 0.05, thumb tip to index MCP
One == 1000                    \* 1.0 in fixed point

NoHand == [present |-> FALSE]

InitialTrackingState ==
    [leftHand |-> NoHand, rightHand |-> NoHand, gesture |-> "none",
     interactionStrength |-> 0]

(***************************************************************************)
(* Hand Signal Processor: processHand and its helpers                      *)
(***************************************************************************)
\* lerp with a blend factor above 1, which passes the target
LerpPct_Overshoots(a, b, alphaPct) == a + Trunc((b - a) * (alphaPct + 100), 100)

\* MathUtils.lerp / Vector3.lerp component: a + (b - a) * alpha, alpha in hundredths
LerpPct(a, b, alphaPct) == a + Trunc((b - a) * alphaPct, 100)

lerpVector3(v1, v2, alphaPct) ==
    Vec(LerpPct(v1.x, v2.x, alphaPct), LerpPct(v1.y, v2.y, alphaPct),
        LerpPct(v1.z, v2.z, alphaPct))

FingerTips == <<8, 12, 16, 20>>
FingerPIPs == <<6, 10, 14, 18>>

countExtendedFingers(landmarks) ==
    LET wrist == landmarks[0]
        ext(i) == IF HypotSq(landmarks[FingerTips[i]], wrist)
                        > HypotSq(landmarks[FingerPIPs[i]], wrist) THEN 1 ELSE 0
        thumb == IF HypotSq(landmarks[4], landmarks[5]) > ThumbExtension * ThumbExtension
                 THEN 1 ELSE 0
    IN ext(1) + ext(2) + ext(3) + ext(4) + thumb

\* GestureOf that labels a hand without stretched fingers 'fist'
GestureOf_ClosedIsFist(isPinching, extendedCount) ==
    IF isPinching \/ extendedCount = 0 THEN "fist"
    ELSE IF extendedCount = 1 THEN "one_finger"
    ELSE IF extendedCount = 2 THEN "two_fingers"
    ELSE IF extendedCount = 3 THEN "three_fingers"
    ELSE IF extendedCount = 4 THEN "four_fingers"
    ELSE "open_palm"

GestureOf(isPinching, extendedCount) ==
    IF isPinching THEN "fist"
    ELSE IF extendedCount = 1 THEN "one_finger"
    ELSE IF extendedCount = 2 THEN "two_fingers"
    ELSE IF extendedCount = 3 THEN "three_fingers"
    ELSE IF extendedCount = 4 THEN "four_fingers"
    ELSE "open_palm"

\* Midpoint of thumb tip and index tip: addVectors(...).multiplyScalar(0.5)
PinchMid(thumbTip, indexTip) ==
    Vec(Trunc(thumbTip.x + indexTip.x, 2), Trunc(thumbTip.y + indexTip.y, 2),
        Trunc(thumbTip.z + indexTip.z, 2))

\* processHand whose pinch test is not strict
processHand_LaxPinch(landmarks, categoryName, lastHand) ==
    LET thumbTip == landmarks[4]
        indexTip == landmarks[8]
        wrist == landmarks[0]
        pinchDistSq == DistSq(thumbTip, indexTip)
        pinchDist == ISqrt(pinchDistSq)
        isPinching == pinchDistSq <= PINCH_THRESHOLD * PINCH_THRESHOLD
        pinchPos == PinchMid(thumbTip, indexTip)
        extendedCount == countExtendedFingers(landmarks)
    IN [present |-> TRUE,
        landmarks |-> landmarks,
        handedness |-> categoryName,
        isPinching |-> isPinching,
        pinchStrength |-> Max(0, One - (pinchDist * One) \div PINCH_THRESHOLD),
        pinchPosition |-> IF lastHand.present
                          THEN lerpVector3(lastHand.pinchPosition, pinchPos, SMOOTHING_FACTOR)
                          ELSE pinchPos,
        palmPosition |-> IF lastHand.present
                         THEN lerpVector3(lastHand.palmPosition, wrist, SMOOTHING_FACTOR)
                         ELSE wrist,
        extendedFingers |-> extendedCount,
        gestureType |-> GestureOf(isPinching, extendedCount)]

processHand(landmarks, categoryName, lastHand) ==
    LET thumbTip == landmarks[4]
        indexTip == landmarks[8]
        wrist == landmarks[0]
        pinchDistSq == DistSq(thumbTip, indexTip)
        pinchDist == ISqrt(pinchDistSq)
        isPinching == pinchDistSq < PINCH_THRESHOLD * PINCH_THRESHOLD
        pinchPos == PinchMid(thumbTip, indexTip)
        extendedCount == countExtendedFingers(landmarks)
    IN [present |-> TRUE,
        landmarks |-> landmarks,
        handedness |-> categoryName,
        isPinching |-> isPinching,
        pinchStrength |-> Max(0, One - (pinchDist * One) \div PINCH_THRESHOLD),
        pinchPosition |-> IF lastHand.present
                          THEN lerpVector3(lastHand.pinchPosition, pinchPos, SMOOTHING_FACTOR)
                          ELSE pinchPos,
        palmPosition |-> IF lastHand.present
                         THEN lerpVector3(lastHand.palmPosition, wrist, SMOOTHING_FACTOR)
                         ELSE wrist,
        extendedFingers |-> extendedCount,
        gestureType |-> GestureOf(isPinching, extendedCount)]

(***************************************************************************)
(* Tracking State Aggregator: the body of predict                          *)
(***************************************************************************)
\* AssignHands that smooths a hand against the previous hand of the other label
RECURSIVE AssignHands_SwapsPrev(_, _, _, _)
AssignHands_SwapsPrev(result, i, prev, acc) ==
    IF i > Len(result) THEN acc
    ELSE LET categoryName == result[i].categoryName
             prevHand == IF categoryName = "Left" THEN prev.rightHand ELSE prev.leftHand
             processed == processHand(result[i].landmarks, categoryName, prevHand)
         IN AssignHands_SwapsPrev(result, i + 1, prev,
                IF categoryName = "Left"
                THEN [acc EXCEPT !.newLeftHand = processed]
                ELSE [acc EXCEPT !.newRightHand = processed])

\* AssignHands that keeps the first hand of a label and drops later ones
RECURSIVE AssignHands_KeepsFirst(_, _, _, _)
AssignHands_KeepsFirst(result, i, prev, acc) ==
    IF i > Len(result) THEN acc
    ELSE LET categoryName == result[i].categoryName
             prevHand == IF categoryName = "Left" THEN prev.leftHand ELSE prev.rightHand
             processed == processHand(result[i].landmarks, categoryName, prevHand)
         IN AssignHands_KeepsFirst(result, i + 1, prev,
                IF categoryName = "Left"
                THEN [acc EXCEPT !.newLeftHand = IF @.present THEN @ ELSE processed]
                ELSE [acc EXCEPT !.newRightHand = IF @.present THEN @ ELSE processed])

\* The for-loop of predict over result.landmarks: every hand is smoothed
\* against the slot of its label in the previous stateRef.current and stored
\* in the slot of its label, later hands overwriting earlier ones.
RECURSIVE AssignHands(_, _, _, _)
AssignHands(result, i, prev, acc) ==
    IF i > Len(result) THEN acc
    ELSE LET categoryName == result[i].categoryName
             prevHand == IF categoryName = "Left" THEN prev.leftHand ELSE prev.rightHand
             processed == processHand(result[i].landmarks, categoryName, prevHand)
         IN AssignHands(result, i + 1, prev,
                IF categoryName = "Left"
                THEN [acc EXCEPT !.newLeftHand = processed]
                ELSE [acc EXCEPT !.newRightHand = processed])

\* Aggregate that reports 'rotate' for a single hand whether it pinches or not
Aggregate_RotateAlways(newLeftHand, newRightHand) ==
    IF newLeftHand.present /\ newRightHand.present
    THEN LET distSq == DistSq(newLeftHand.palmPosition, newRightHand.palmPosition)
         IN IF distSq > ZoomSpread * ZoomSpread
               /\ ~newLeftHand.isPinching /\ ~newRightHand.isPinching
            THEN [gesture |-> "zoom", strength |-> ISqrt(distSq)]
            ELSE [gesture |-> "none", strength |-> 0]
    ELSE IF newLeftHand.present \/ newRightHand.present
    THEN [gesture |-> "rotate", strength |-> 0]
    ELSE [gesture |-> "none", strength |-> 0]

\* Mutant of Aggregate: the zoom branch forgets the two pinch tests.
Aggregate_ZoomIgnoresPinch(newLeftHand, newRightHand) ==
    IF newLeftHand.present /\ newRightHand.present
    THEN LET distSq == DistSq(newLeftHand.palmPosition, newRightHand.palmPosition)
         IN IF distSq > ZoomSpread * ZoomSpread
            THEN [gesture |-> "zoom", strength |-> ISqrt(distSq)]
            ELSE [gesture |-> "none", strength |-> 0]
    ELSE IF newLeftHand.present \/ newRightHand.present
    THEN LET activeHand == IF newLeftHand.present THEN newLeftHand ELSE newRightHand
         IN IF activeHand.isPinching
            THEN [gesture |-> "pinch_drag", strength |-> activeHand.pinchStrength]
            ELSE [gesture |-> "rotate", strength |-> 0]
    ELSE [gesture |-> "none", strength |-> 0]

\* The gesture/strength decision of predict.
Aggregate(newLeftHand, newRightHand) ==
    IF newLeftHand.present /\ newRightHand.present
    THEN LET distSq == DistSq(newLeftHand.palmPosition, newRightHand.palmPosition)
         IN IF distSq > ZoomSpread * ZoomSpread
               /\ ~newLeftHand.isPinching /\ ~newRightHand.isPinching
            THEN [gesture |-> "zoom", strength |-> ISqrt(distSq)]
            ELSE [gesture |-> "none", strength |-> 0]
    ELSE IF newLeftHand.present \/ newRightHand.present
    THEN LET activeHand == IF newLeftHand.present THEN newLeftHand ELSE newRightHand
         IN IF activeHand.isPinching
            THEN [gesture |-> "pinch_drag", strength |-> activeHand.pinchStrength]
            ELSE [gesture |-> "rotate", strength |-> 0]
    ELSE [gesture |-> "none", strength |-> 0]

\* The object literal assigned to stateRef.current.
NewTrackingState(result, prev) ==
    LET hands == AssignHands(result, 1, prev,
                             [newLeftHand |-> NoHand, newRightHand |-> NoHand])
        agg == Aggregate(hands.newLeftHand, hands.newRightHand)
    IN [leftHand |-> hands.newLeftHand,
        rightHand |-> hands.newRightHand,
        gesture |-> agg.gesture,
        interactionStrength |-> agg.strength]

\* Mutant of handleHandUpdate: only the two hands are copied into the old object.
handleHandUpdate_HandsOnly(old, newState) ==
    [old EXCEPT !.leftHand = newState.leftHand, !.rightHand = newState.rightHand]

\* handleHandUpdate of the page: handStateRef.current = newState
handleHandUpdate(old, newState) == newState

(***************************************************************************)
(* Landmark Source (external model): the landmark sets the detector hands  *)
(* to predict.  A hand is described by the midpoint of thumb tip and index *)
(* tip, the thumb-index gap, the direction wrist -> fingers in the image   *)
(* and which fingers are stretched; the 21-point output is reduced to the  *)
(* indices the program reads (0, 4, 5, 6, 8, 10, 12, 14, 16, 18, 20).      *)
(***************************************************************************)
FingerDir(dir) ==
    IF dir = "up" THEN Vec(0, -1, 0)
    ELSE IF dir = "down" THEN Vec(0, 1, 0)
    ELSE IF dir = "right" THEN Vec(1, 0, 0)
    ELSE Vec(-1, 0, 0)

\* pose = [gap, dir, fingers, thumbOut]: fingers = how many of middle, ring
\* and pinky are stretched; the index is stretched too, except that fingers = -1
\* curls all four fingers (index tip nearer to the wrist than its PIP joint).
Landmarks(mid, pose) ==
    LET half == pose.gap \div 2
        thumbTip == VAdd(mid, Vec(-half, 0, 0))
        indexTip == VAdd(mid, Vec(half, 0, 0))
        u == FingerDir(pose.dir)
        side == Vec(-u.y, u.x, 0)
        wrist == VSub(indexTip, VScale(u, 300))
        tipOf(k) == IF k <= pose.fingers
                    THEN VAdd(VAdd(wrist, VScale(u, 300)), VScale(side, 30 * k))
                    ELSE VAdd(VAdd(wrist, VScale(u, 100)), VScale(side, 30 * k))
        pipOf(k) == VAdd(VAdd(wrist, VScale(u, 200)), VScale(side, 30 * k))
    IN [i \in {0, 4, 5, 6, 8, 10, 12, 14, 16, 18, 20} |->
          CASE i = 0 -> wrist
            [] i = 4 -> thumbTip
            [] i = 5 -> IF pose.thumbOut THEN VAdd(thumbTip, Vec(0, 80, 0))
                                         ELSE VAdd(thumbTip, Vec(0, 30, 0))
            [] i = 6 -> IF pose.fingers < 0 THEN VAdd(wrist, VScale(u, 350))
                                            ELSE VAdd(wrist, VScale(u, 200))
            [] i = 8 -> indexTip
            [] i = 10 -> pipOf(1)
            [] i = 12 -> tipOf(1)
            [] i = 14 -> pipOf(2)
            [] i = 16 -> tipOf(2)
            [] i = 18 -> pipOf(3)
            [] i = 20 -> tipOf(3)]

Pose(gap, dir, fingers, thumbOut) ==
    [gap |-> gap, dir |-> dir, fingers |-> fingers, thumbOut |-> thumbOut]

(***************************************************************************)
(* Detector outputs of the tracker specification                           *)
(***************************************************************************)
MaxFrames == 2                 \* detection frames explored per behaviour
NumHands == 2                  \* numHands of HandLandmarker.createFromOptions

TrackerMids == {Vec(400, 500, 0), Vec(640, 500, 0)}
TrackerPoses == {Pose(20, "up", 3, TRUE), Pose(80, "up", 2, TRUE)}
TrackerHands ==
    {[categoryName |-> c, landmarks |-> Landmarks(m, p)] :
        c \in {"Left", "Right"}, m \in TrackerMids, p \in TrackerPoses}

SeqsUpTo(S, n) == UNION {[1..k -> S] : k \in 0..n}

\* result of detectForVideo: it throws, or returns up to numHands hands
DetectorOutcomes(hands) ==
    {[ok |-> FALSE, hands |-> <<>>]}
    \cup {[ok |-> TRUE, hands |-> r] : r \in SeqsUpTo(hands, NumHands)}

TrackerOutcomes == DetectorOutcomes(TrackerHands)

(***************************************************************************)
(* HandTracker: mount effect, startWebcam, predict, cleanup                *)
(***************************************************************************)
InitTracker ==
    /\ mounted = TRUE
    /\ initPc = "resolving"          \* initMediaPipe() awaits FilesetResolver
    /\ landmarkerRef = FALSE
    /\ camPc = "idle"
    /\ stream = "none"
    /\ videoRef = TRUE
    /\ srcObject = FALSE
    /\ onloadeddata = FALSE
    /\ isReady = FALSE
    /\ requestRef = FALSE
    /\ stateRef = InitialTrackingState
    /\ frames = 0
    /\ handStateRef = InitialTrackingState
    /\ hsRead = InitialTrackingState

\* await FilesetResolver.forVisionTasks(...) resolves
FilesetResolved ==
    /\ initPc = "resolving"
    /\ initPc' = "creating"
    /\ UNCHANGED <<mounted, landmarkerRef, camPc, stream, videoRef, srcObject,
                   onloadeddata, isReady, requestRef, stateRef, frames, handStateRef, hsRead>>
    /\ UNCHANGED sceneVars

\* await HandLandmarker.createFromOptions(...) resolves; startWebcam() is called
LandmarkerCreated ==
    /\ initPc = "creating"
    /\ initPc' = "started"
    /\ landmarkerRef' = TRUE
    /\ camPc' = "pending"
    /\ UNCHANGED <<mounted, stream, videoRef, srcObject, onloadeddata, isReady,
                   requestRef, stateRef, frames, handStateRef, hsRead>>
    /\ UNCHANGED sceneVars

\* either await rejects: catch (error) { console.error(...) }
InitFailed ==
    /\ initPc \in {"resolving", "creating"}
    /\ initPc' = "failed"
    /\ UNCHANGED <<mounted, landmarkerRef, camPc, stream, videoRef, srcObject,
                   onloadeddata, isReady, requestRef, stateRef, frames, handStateRef, hsRead>>
    /\ UNCHANGED sceneVars

\* await getUserMedia(...) resolves with a live stream
GetUserMediaResolved ==
    /\ camPc = "pending"
    /\ stream' = "live"
    /\ IF videoRef
       THEN /\ srcObject' = TRUE
            /\ onloadeddata' = TRUE
            /\ camPc' = "attached"
       ELSE /\ camPc' = "dropped"
            /\ UNCHANGED <<srcObject, onloadeddata>>
    /\ UNCHANGED <<mounted, initPc, landmarkerRef, videoRef, isReady, requestRef,
                   stateRef, frames, handStateRef, hsRead>>
    /\ UNCHANGED sceneVars

\* GetUserMediaRejected that starts the detection loop all the same
GetUserMediaRejected_StartsLoop ==
    /\ camPc = "pending"
    /\ camPc' = "denied"
    /\ requestRef' = TRUE
    /\ UNCHANGED <<mounted, initPc, landmarkerRef, stream, videoRef, srcObject,
                   onloadeddata, isReady, stateRef, frames, handStateRef, hsRead>>
    /\ UNCHANGED sceneVars

\* await getUserMedia(...) rejects: catch (err) { console.error(...) }
GetUserMediaRejected ==
    /\ camPc = "pending"
    /\ camPc' = "denied"
    /\ UNCHANGED <<mounted, initPc, landmarkerRef, stream, videoRef, srcObject,
                   onloadeddata, isReady, requestRef, stateRef, frames, handStateRef, hsRead>>
    /\ UNCHANGED sceneVars

\* predict(): the early return, the detection, the write of stateRef.current,
\* onUpdate(stateRef.current) and the next requestAnimationFrame.
predict(outcome) ==
    IF ~landmarkerRef \/ ~videoRef
    THEN /\ requestRef' = FALSE
         /\ UNCHANGED <<stateRef, handStateRef, frames>>
    ELSE /\ frames < MaxFrames
         /\ frames' = frames + 1
         /\ IF ~outcome.ok
            THEN /\ requestRef' = FALSE
                 /\ UNCHANGED <<stateRef, handStateRef>>
            ELSE /\ stateRef' = NewTrackingState(outcome.hands, stateRef)
                 /\ handStateRef' = handleHandUpdate(handStateRef, stateRef')
                 /\ requestRef' = TRUE

\* video.onloadeddata: setIsReady(true); predict()
LoadedData(outcome) ==
    /\ onloadeddata
    /\ onloadeddata' = FALSE
    /\ isReady' = TRUE
    /\ predict(outcome)
    /\ UNCHANGED <<mounted, initPc, landmarkerRef, camPc, stream, videoRef, srcObject,
                   hsRead>>
    /\ UNCHANGED sceneVars

\* the animation-frame callback scheduled by predict
AnimationFrame(outcome) ==
    /\ requestRef
    /\ predict(outcome)
    /\ UNCHANGED <<mounted, initPc, landmarkerRef, camPc, stream, videoRef, srcObject,
                   onloadeddata, isReady, hsRead>>
    /\ UNCHANGED sceneVars

\* cleanup of the mount effect, then React detaches the element refs
Unmount ==
    /\ mounted
    /\ mounted' = FALSE
    /\ requestRef' = FALSE
    /\ stream' = IF videoRef /\ srcObject THEN "stopped" ELSE stream
    /\ videoRef' = FALSE
    /\ UNCHANGED <<initPc, landmarkerRef, camPc, srcObject, onloadeddata, isReady,
                   stateRef, frames, handStateRef, hsRead>>
    /\ UNCHANGED sceneVars

\* useFrame callback of the mounted scene: const hs = handState.current
ReadHandState ==
    /\ mounted
    /\ hsRead' = handStateRef
    /\ UNCHANGED trackerVars
    /\ UNCHANGED handStateRef
    /\ UNCHANGED sceneVars

NoScene ==
    /\ scene = "none"
    /\ items = <<>>
    /\ released = {}
    /\ renders = 0
    /\ pourN = 0
    /\ particles = <<>>
    /\ mounts = 1
    /\ targetIndex = 0
    /\ camRadius = 60000
    /\ camPhi = 1257

Init ==
    /\ InitTracker
    /\ NoScene

Next ==
    \/ FilesetResolved
    \/ LandmarkerCreated
    \/ InitFailed
    \/ GetUserMediaResolved
    \/ GetUserMediaRejected
    \/ \E o \in TrackerOutcomes : LoadedData(o)
    \/ \E o \in TrackerOutcomes : AnimationFrame(o)
    \/ Unmount
    \/ ReadHandState

Spec == Init /\ [][Next]_vars

(***************************************************************************)
(* Chemistry scene with pouring (src/unnamed/part_000)                     *)
(***************************************************************************)
Rgb(r, g, b) == [r |-> r, g |-> g, b |-> b]
Euler(x, y, z) == [x |-> x, y |-> y, z |-> z]

Equipment(type, position, color, liquidLevel) ==
    [type |-> type, position |-> position, rotation |-> Euler(0, 0, 0),
     color |-> color, liquidLevel |-> liquidLevel, heldBy |-> "null"]

INITIAL_ITEMS ==
    << Equipment("TEST_TUBE", Vec(-4000, -1000, 0), Rgb(255, 68, 68), 700),    \* tube1
       Equipment("TEST_TUBE", Vec(-2500, -1000, 0), Rgb(68, 68, 255), 600),    \* tube2
       Equipment("TEST_TUBE", Vec(-1000, -1000, 0), Rgb(68, 255, 68), 800),    \* tube3
       Equipment("TEST_TUBE", Vec(500, -1000, 0), Rgb(255, 170, 0), 500),      \* tube4
       Equipment("TEST_TUBE", Vec(2000, -1000, 0), Rgb(255, 0, 255), 400),     \* tube5
       Equipment("TEST_TUBE", Vec(3500, -1000, 0), Rgb(0, 255, 255), 900),     \* tube6
       Equipment("FLASK", Vec(-2000, 0, 2000), Rgb(255, 255, 255), 0),         \* beaker1
       Equipment("FLASK", Vec(2000, 0, 2000), Rgb(255, 255, 255), 0) >>        \* beaker2

Tube1 == 1
Beaker1 == 7

Sides == <<"Left", "Right">>
HandOf(hs, side) == IF side = "Left" THEN hs.leftHand ELSE hs.rightHand
OtherSide(side) == IF side = "Left" THEN "Right" ELSE "Left"

\* Math.atan2(dy, dx) in milliradians, for the directions the poses use
Atan2(dy, dx) ==
    IF dx > 0 /\ dy = 0 THEN 0
    ELSE IF dx = 0 /\ dy > 0 THEN 1571
    ELSE IF dx < 0 /\ dy = 0 THEN 3142
    ELSE IF dx = 0 /\ dy < 0 THEN -1571
    ELSE 0

\* angle of the hand: atan2(index.y - wrist.y, index.x - wrist.x)
HandAngle(hand) ==
    Atan2(hand.landmarks[8].y - hand.landmarks[0].y,
          hand.landmarks[8].x - hand.landmarks[0].x)

\* handPos of the pouring scene
LabHandPos(hand) ==
    Vec((500 - hand.pinchPosition.x) * 14, (500 - hand.pinchPosition.y) * 10, 0)

LabGrabDistance(item) == IF item.type = "TEST_TUBE" THEN 800 ELSE 1500

RackPositions == <<-4000, -2500, -1000, 500, 2000, 3500>>

\* rackPositions.reduce((prev, curr) => |curr - x| < |prev - x| ? curr : prev)
RECURSIVE NearestRack(_, _, _)
NearestRack(x, i, prev) ==
    IF i > Len(RackPositions) THEN prev
    ELSE NearestRack(x, i + 1,
            IF Abs(RackPositions[i] - x) < Abs(prev - x) THEN RackPositions[i] ELSE prev)

\* The RELEASE branch: heldBy, snap back, rotation reset.
LabRelease(item) ==
    LET snapped ==
          IF item.position.y > -1500
          THEN IF item.type = "TEST_TUBE"
               THEN Vec(LerpPct(item.position.x,
                                NearestRack(item.position.x, 2, RackPositions[1]), 50),
                        -1500, item.position.z)
               ELSE Vec(item.position.x, -1500, item.position.z)
          ELSE item.position
    IN [item EXCEPT !.heldBy = "null", !.position = snapped, !.rotation = Euler(0, 0, 0)]

\* The GRAB branch: heldBy, follow the hand, rotate with the hand.
LabGrab(item, side, hand, wobble) ==
    LET angle == HandAngle(hand)
        rot == IF item.type = "TEST_TUBE"
               THEN Euler(wobble, item.rotation.y,
                          LerpPct(item.rotation.z, Trunc(-(angle + 1571) * 7, 10), 30))
               ELSE Euler(item.rotation.x, item.rotation.y,
                          LerpPct(item.rotation.z, -(angle + 1571), 20))
    IN [item EXCEPT !.heldBy = side, !.position = LabHandPos(hand), !.rotation = rot]

\* LabInteract without the `heldBy === null || heldBy === side` test of the grab
LabInteract_Steals(st, side, hand, wobble) ==
    IF ~hand.present THEN st
    ELSE LET item == st.item
             inRange == DistSq(LabHandPos(hand), item.position)
                           < LabGrabDistance(item) * LabGrabDistance(item)
         IN IF inRange /\ hand.isPinching
            THEN [item |-> LabGrab(item, side, hand, wobble),
                  changed |-> st.changed \/ item.heldBy # side,
                  released |-> st.released]
            ELSE IF item.heldBy = side /\ ~hand.isPinching
            THEN [item |-> LabRelease(item), changed |-> TRUE, released |-> TRUE]
            ELSE st

\* One side's pass over one item: [item, changed, released]
LabInteract(st, side, hand, wobble) ==
    IF ~hand.present THEN st
    ELSE LET item == st.item
             inRange == DistSq(LabHandPos(hand), item.position)
                           < LabGrabDistance(item) * LabGrabDistance(item)
         IN IF inRange /\ hand.isPinching /\ (item.heldBy = "null" \/ item.heldBy = side)
            THEN [item |-> LabGrab(item, side, hand, wobble),
                  changed |-> st.changed \/ item.heldBy # side,
                  released |-> st.released]
            ELSE IF item.heldBy = side /\ ~hand.isPinching
            THEN [item |-> LabRelease(item), changed |-> TRUE, released |-> TRUE]
            ELSE st

\* LabInteractBoth that lets the Right hand act before the Left hand
LabInteractBoth_RightFirst(item, hs, wobble) ==
    LabInteract(LabInteract([item |-> item, changed |-> FALSE, released |-> FALSE],
                            "Right", hs.rightHand, wobble),
                "Left", hs.leftHand, wobble)

\* ['Left', 'Right'].forEach(side => nextItems.forEach(item => ...)) for one item
LabInteractBoth(item, hs, wobble) ==
    LabInteract(LabInteract([item |-> item, changed |-> FALSE, released |-> FALSE],
                            "Left", hs.leftHand, wobble),
                "Right", hs.rightHand, wobble)

\* Transfer that fills the target without taking anything from the source
Transfer_KeepsSource(arr, i, j) ==
    [arr EXCEPT ![j].color = IF arr[j].liquidLevel <= 50 THEN arr[i].color ELSE @,
                ![j].liquidLevel = Min(1000, arr[j].liquidLevel + 15)]

\* Transfer that replaces the target's colour whatever its level
Transfer_AlwaysReplaces(arr, i, j) ==
    [arr EXCEPT ![i].liquidLevel = arr[i].liquidLevel - 15,
                ![j].color = arr[i].color,
                ![j].liquidLevel = Min(1000, arr[j].liquidLevel + 15)]

\* the transfer from source i to target j
Transfer(arr, i, j) ==
    LET source == arr[i]
        target == arr[j]
        color == IF target.liquidLevel <= 50
                 THEN source.color
                 ELSE Rgb(LerpPct(target.color.r, source.color.r, 10),
                          LerpPct(target.color.g, source.color.g, 10),
                          LerpPct(target.color.b, source.color.b, 10))
    IN [arr EXCEPT ![i].liquidLevel = source.liquidLevel - 15,
                   ![j].color = color,
                   ![j].liquidLevel = Min(1000, target.liquidLevel + 15)]

PourCondition(source, target) ==
    /\ DistSq(source.position, target.position) < 2500 * 2500
    /\ source.position.y > target.position.y + 1000

\* inner forEach over the targets j of source i
RECURSIVE PourInto(_, _, _)
PourInto(arr, i, j) ==
    IF j > Len(arr) THEN arr
    ELSE IF i # j /\ PourCondition(arr[i], arr[j])
    THEN PourInto(Transfer(arr, i, j), i, j + 1)
    ELSE PourInto(arr, i, j + 1)

Pours(source) ==
    /\ source.heldBy # "null"
    /\ source.liquidLevel > 0
    /\ Abs(source.rotation.z) > 1000

\* outer forEach over the sources i
RECURSIVE PourFrom(_, _)
PourFrom(arr, i) ==
    IF i > Len(arr) THEN arr
    ELSE IF Pours(arr[i]) THEN PourFrom(PourInto(arr, i, 1), i + 1)
    ELSE PourFrom(arr, i + 1)

\* nextItems after the interaction loops
LabInteracted(its, hs, wobble) ==
    [i \in 1..Len(its) |-> LabInteractBoth(its[i], hs, wobble)]

\* The value of `items` after the useFrame callback.  A transfer sets
\* `changed`; the highest pouring vessel only loses liquid, so some level
\* differs exactly when a transfer happened.  position, rotation and
\* color are objects shared by items and nextItems and are mutated in place;
\* heldBy and liquidLevel live in the copies and reach the state only through
\* setItems(nextItems), that is when `changed` is set.
LabFrameItems(its, hs, wobble) ==
    LET inter == LabInteracted(its, hs, wobble)
        mid == [i \in 1..Len(its) |-> inter[i].item]
        poured == PourFrom(mid, 1)
        changed == (\E i \in 1..Len(its) : inter[i].changed)
                      \/ (\E i \in 1..Len(its) : poured[i].liquidLevel # mid[i].liquidLevel)
    IN [i \in 1..Len(its) |->
          IF changed THEN poured[i]
          ELSE [poured[i] EXCEPT !.heldBy = its[i].heldBy,
                                 !.liquidLevel = its[i].liquidLevel]]

(***************************************************************************)
(* Pour particles (src/unnamed/part_000, setParticles)                     *)
(***************************************************************************)
\* the targets of source i in the order of the inner forEach
RECURSIVE TargetsOf(_, _, _)
TargetsOf(arr, i, j) ==
    IF j > Len(arr) THEN <<>>
    ELSE IF i # j /\ PourCondition(arr[i], arr[j])
    THEN <<[color |-> arr[i].color, pos |-> arr[j].position]>> \o TargetsOf(arr, i, j + 1)
    ELSE TargetsOf(arr, i, j + 1)

\* the transfers of one frame in execution order, each with the colour of its
\* source and the position of its target at that moment
RECURSIVE TransfersFrom(_, _)
TransfersFrom(arr, i) ==
    IF i > Len(arr) THEN <<>>
    ELSE IF Pours(arr[i])
    THEN TargetsOf(arr, i, 1) \o TransfersFrom(PourInto(arr, i, 1), i + 1)
    ELSE TransfersFrom(arr, i + 1)

LabTransfers(its, hs, wobble) ==
    TransfersFrom([i \in 1..Len(its) |-> LabInteractBoth(its[i], hs, wobble).item], 1)

\* prev.slice(-25) keeping the whole list: the cap is missing
KeepLast_All(q, n) == q

\* q.slice(-n): the last n entries
KeepLast(q, n) == IF Len(q) <= n THEN q ELSE SubSeq(q, Len(q) - n + 1, Len(q))

\* setParticles(prev => [...prev, {pos, color, id}].slice(-25)).  The id is
\* Math.random(); the model numbers the spawns so that age can be read off.
\* The random offset added to the target position is left out.
SpawnParticle(prev, t) ==
    KeepLast(Append(prev, [id |-> IF prev = <<>> THEN 1 ELSE prev[Len(prev)].id + 1,
                           color |-> t.color, pos |-> t.pos]), 25)

\* the queued updates of one frame: transfer k spawns when Math.random() > 0.6,
\* that is when k is in mask
RECURSIVE SpawnAll(_, _, _, _)
SpawnAll(prev, transfers, mask, k) ==
    IF k > Len(transfers) THEN prev
    ELSE SpawnAll(IF k \in mask THEN SpawnParticle(prev, transfers[k]) ELSE prev,
                  transfers, mask, k + 1)

LabReleased(its, hs, wobble) ==
    {i \in 1..Len(its) : LabInteractBoth(its[i], hs, wobble).released}

(***************************************************************************)
(* Routed chemistry page with reactions (src/pages/ChemistryPage.tsx)      *)
(***************************************************************************)
TestTube(position, color, liquidLevel, chemicalType) ==
    [type |-> "PAGE_TUBE", position |-> position, rotation |-> Euler(0, 0, 0),
     color |-> color, liquidLevel |-> liquidLevel, chemicalType |-> chemicalType,
     heldBy |-> "null"]

INITIAL_TUBES ==
    << TestTube(Vec(-3000, 0, 0), Rgb(255, 107, 107), 700, "acid"),
       TestTube(Vec(-1000, 0, 0), Rgb(78, 205, 196), 600, "base"),
       TestTube(Vec(1000, 0, 0), Rgb(69, 183, 209), 800, "neutral"),
       TestTube(Vec(3000, 0, 0), Rgb(150, 206, 180), 500, "indicator") >>

PageHandPos(hand) ==
    Vec((500 - hand.pinchPosition.x) * 10, (500 - hand.pinchPosition.y) * 6,
        hand.pinchPosition.z * 2)

\* One side's pass over one tube: [item, changed, released]
PageInteract(st, side, hand) ==
    IF ~hand.present THEN st
    ELSE LET tube == st.item
             handPos == PageHandPos(hand)
         IN IF DistSq(handPos, tube.position) < 1000 * 1000 /\ hand.isPinching
               /\ (tube.heldBy = "null" \/ tube.heldBy = side)
            THEN [item |-> [tube EXCEPT
                              !.heldBy = side,
                              !.position = handPos,
                              !.rotation.z = Trunc(-(HandAngle(hand) + 1571) * 5, 10)],
                  changed |-> st.changed \/ tube.heldBy # side,
                  released |-> st.released]
            ELSE IF tube.heldBy = side /\ ~hand.isPinching
            THEN [item |-> [tube EXCEPT !.heldBy = "null", !.position.y = 0,
                                        !.rotation = Euler(0, 0, 0)],
                  changed |-> TRUE, released |-> TRUE]
            ELSE st

PageInteractBoth(tube, hs) ==
    PageInteract(PageInteract([item |-> tube, changed |-> FALSE, released |-> FALSE],
                              "Left", hs.leftHand),
                 "Right", hs.rightHand)

\* Reacts without the two level tests
Reacts_AnyLevel(tube1, tube2) ==
    DistSq(tube1.position, tube2.position) < 1500 * 1500

Reacts(tube1, tube2) ==
    /\ DistSq(tube1.position, tube2.position) < 1500 * 1500
    /\ tube1.liquidLevel > 100
    /\ tube2.liquidLevel > 100

\* the nested for-loops over the pairs i < j
RECURSIVE ReactPairs(_, _, _)
ReactPairs(arr, i, j) ==
    IF i > Len(arr) THEN arr
    ELSE IF j > Len(arr) THEN ReactPairs(arr, i + 1, i + 2)
    ELSE IF Reacts(arr[i], arr[j])
    THEN ReactPairs([arr EXCEPT ![i].liquidLevel = Max(0, arr[i].liquidLevel - 10),
                                ![j].liquidLevel = Max(0, arr[j].liquidLevel - 10)],
                    i, j + 1)
    ELSE ReactPairs(arr, i, j + 1)

\* The value of `testTubes` after the useFrame callback.  activeReaction and
\* reactionIntensity only drive the visual effect and are not modelled yet.
PageFrameItems(its, hs) ==
    LET inter == [i \in 1..Len(its) |-> PageInteractBoth(its[i], hs)]
        mid == [i \in 1..Len(its) |-> inter[i].item]
        reacted == ReactPairs(mid, 1, 2)
        changed == (\E i \in 1..Len(its) : inter[i].changed)
                      \/ (\E i \in 1..Len(its) : reacted[i].liquidLevel # mid[i].liquidLevel)
    IN [i \in 1..Len(its) |->
          IF changed THEN reacted[i]
          ELSE [reacted[i] EXCEPT !.heldBy = its[i].heldBy,
                                  !.liquidLevel = its[i].liquidLevel]]

PageReleased(its, hs) ==
    {i \in 1..Len(its) : PageInteractBoth(its[i], hs).released}

(***************************************************************************)
(* Render frames of the mounted chemistry scene                            *)
(***************************************************************************)
\* the tracker as the scene specifications see it: started and detecting
TrackerRunning ==
    /\ mounted = TRUE
    /\ initPc = "started"
    /\ landmarkerRef = TRUE
    /\ camPc = "attached"
    /\ stream = "live"
    /\ videoRef = TRUE
    /\ srcObject = TRUE
    /\ onloadeddata = FALSE
    /\ isReady = TRUE
    /\ requestRef = TRUE
    /\ stateRef = InitialTrackingState
    /\ frames = 0
    /\ handStateRef = InitialTrackingState
    /\ hsRead = InitialTrackingState

\* TrackingStates predict writes for hands that were absent in the frame before
FreshStates(lefts, rights) ==
    {NewTrackingState(r, InitialTrackingState) :
        r \in {<<>>} \cup {<<l>> : l \in lefts} \cup {<<h>> : h \in rights}
              \cup {<<l, h>> : l \in lefts, h \in rights}}

Hand(categoryName, px, py, pose) ==
    [categoryName |-> categoryName, landmarks |-> Landmarks(Vec(px, py, 0), pose)]

FrameItems(sc, its, hs, wobble) ==
    IF sc = "lab" THEN LabFrameItems(its, hs, wobble) ELSE PageFrameItems(its, hs)

FrameReleased(sc, its, hs, wobble) ==
    IF sc = "lab" THEN LabReleased(its, hs, wobble) ELSE PageReleased(its, hs)

\* A render frame: the detection callbacks that ran since the previous render
\* frame left hs in handStateRef.current (stateRef.current = the same object);
\* the useFrame callback reads it and updates the vessels.  mask holds the
\* numbers of the frame's transfers for which Math.random() > 0.6.
RenderFrame(hs, wobble, mask) ==
    /\ scene \in {"lab", "page"}
    /\ stateRef' = hs
    /\ handStateRef' = handleHandUpdate(handStateRef, hs)
    /\ hsRead' = handStateRef'
    /\ items' = FrameItems(scene, items, hsRead', wobble)
    /\ released' = FrameReleased(scene, items, hsRead', wobble)
    /\ LET transfers == IF scene = "lab" THEN LabTransfers(items, hsRead', wobble) ELSE <<>>
       IN particles' = SpawnAll(particles, transfers, mask, 1)
    /\ UNCHANGED <<mounted, initPc, landmarkerRef, camPc, stream, videoRef, srcObject,
                   onloadeddata, isReady, requestRef, frames, scene, mounts,
                   targetIndex, camRadius, camPhi>>

(***************************************************************************)
(* SpecLab: both chemistry scenes, two hands, a few render frames          *)
(***************************************************************************)
MaxRenders == 4

PinchUp == Pose(20, "up", 3, TRUE)
PinchDown == Pose(20, "down", 3, TRUE)
OpenUp == Pose(80, "up", 3, TRUE)

\* lab, Left: (757,540) -> (-3598,-400), (721,485) -> (-3094,150),
\* (686,430) -> (-2604,700), (654,375) -> (-2156,1250): a path that carries
\* tube1 from its slot to above beaker1 and tube2.
LabLefts ==
    {Hand("Left", 757, 540, PinchDown), Hand("Left", 721, 485, PinchDown),
     Hand("Left", 686, 430, PinchDown), Hand("Left", 654, 375, PinchDown),
     Hand("Left", 721, 485, OpenUp)}
\* lab, Right: (757,590) -> (-3598,-900) is near tube1's slot;
\* (679,540) -> (-2506,-400), (679,485) -> (-2506,150) lift tube2 above tube3.
LabRights ==
    {Hand("Right", 757, 590, PinchUp), Hand("Right", 757, 590, OpenUp),
     Hand("Right", 679, 540, PinchDown), Hand("Right", 679, 485, PinchDown)}
LabInputs == FreshStates(LabLefts, LabRights)

\* page: (790,500) -> (-2900,0), (710,450) -> (-2100,300); (780,500) -> (-2800,0)
PageLefts ==
    {Hand("Left", 790, 500, PinchUp), Hand("Left", 710, 450, PinchDown),
     Hand("Left", 710, 450, OpenUp)}
PageRights ==
    {Hand("Right", 780, 500, PinchUp), Hand("Right", 780, 500, OpenUp)}
PageInputs == FreshStates(PageLefts, PageRights)

Wobbles == {50}

\* every Math.random() of a pour is at most 0.6: no particle is spawned
QuietDraws == {{}}

InitLab ==
    /\ TrackerRunning
    /\ scene \in {"lab", "page"}
    /\ items = IF scene = "lab" THEN INITIAL_ITEMS ELSE INITIAL_TUBES
    /\ released = {}
    /\ renders = 0
    /\ pourN = 0
    /\ particles = <<>>
    /\ mounts = 1
    /\ targetIndex = 0
    /\ camRadius = 60000
    /\ camPhi = 1257

LabRender ==
    /\ renders < MaxRenders
    /\ renders' = renders + 1
    /\ UNCHANGED pourN
    /\ \E hs \in (IF scene = "lab" THEN LabInputs ELSE PageInputs) :
          \E wobble \in Wobbles : \E mask \in QuietDraws : RenderFrame(hs, wobble, mask)

NextLab == LabRender

SpecLab == InitLab /\ [][NextLab]_vars

(***************************************************************************)
(* SpecBench: hands within reach of several vessels, and tubes left to      *)
(* react.  Pouring scene: (732,600) -> (-3248,-1000) and (735,600) ->       *)
(* (-3290,-1000) lie between the slots of tube1 and tube2.  Routed page:    *)
(* (710,450) -> (-2100,300) takes the first tube to 1.14 from the second;   *)
(* (655,500) -> (-1550,0) and (650,500) -> (-1500,0) are then within 1.0 of *)
(* both.                                                                    *)
(***************************************************************************)
BenchInputs ==
    IF scene = "lab"
    THEN FreshStates({Hand("Left", 732, 600, PinchUp), Hand("Left", 732, 600, OpenUp)},
                     {Hand("Right", 735, 600, PinchUp)})
    ELSE FreshStates({Hand("Left", 710, 450, PinchUp), Hand("Left", 710, 450, OpenUp),
                      Hand("Left", 655, 500, PinchUp)},
                     {Hand("Right", 650, 500, PinchUp)})

BenchRender ==
    /\ mounted
    /\ UNCHANGED <<renders, pourN>>
    /\ \E hs \in BenchInputs :
          \E wobble \in Wobbles : \E mask \in QuietDraws : RenderFrame(hs, wobble, mask)

NextBench == BenchRender

SpecBench == InitLab /\ [][NextBench]_vars

(***************************************************************************)
(* SpecPour: the end-to-end pour, one hand carrying tube1 over beaker1      *)
(***************************************************************************)
MaxPourN == 48

\* The hand carries tube1 with the fingers up (no tilt) from its slot to
\* (654,375) -> (-2156,1250), then turns the fingers down at
\* (625,360) -> (-1750,1400), where beaker1 is the only vessel under tube1.
CarryInputs ==
    FreshStates({Hand("Left", 757, 540, PinchUp), Hand("Left", 721, 485, PinchUp),
                 Hand("Left", 686, 430, PinchUp), Hand("Left", 654, 375, PinchUp)}, {})
       \ {NewTrackingState(<<>>, InitialTrackingState)}
TiltInput == NewTrackingState(<<Hand("Left", 625, 360, PinchDown)>>, InitialTrackingState)
OpenInput == NewTrackingState(<<Hand("Left", 625, 360, OpenUp)>>, InitialTrackingState)
NoHandsInput == NewTrackingState(<<>>, InitialTrackingState)

\* tube1 is held, tilted beyond 1.0 rad, above beaker1 and within 2.5 of it
OverBeaker(its) ==
    /\ its[Tube1].heldBy # "null"
    /\ Abs(its[Tube1].rotation.z) > 1000
    /\ PourCondition(its[Tube1], its[Beaker1])

InitPour ==
    /\ TrackerRunning
    /\ scene = "lab"
    /\ items = INITIAL_ITEMS
    /\ released = {}
    /\ renders = 0
    /\ pourN = 0
    /\ particles = <<>>
    /\ mounts = 1
    /\ targetIndex = 0
    /\ camRadius = 60000
    /\ camPhi = 1257

PourRender(hs, masks) ==
    /\ pourN < MaxPourN
    /\ \E wobble \in Wobbles : \E mask \in masks : RenderFrame(hs, wobble, mask)
    /\ pourN' = IF OverBeaker(items') THEN pourN + 1 ELSE pourN
    /\ UNCHANGED renders

\* frames while the hand brings tube1 towards beaker1, the tube within its reach
CarryFrame(masks) ==
    \E hs \in CarryInputs :
        /\ items[Tube1].position # LabHandPos(TiltInput.leftHand)
        /\ DistSq(LabHandPos(hs.leftHand), items[Tube1].position) < 800 * 800
        /\ PourRender(hs, masks)

PourCarry == CarryFrame(QuietDraws)

\* frames with the pinching hand above beaker1, fingers down
TiltFrame(masks) ==
    /\ DistSq(LabHandPos(TiltInput.leftHand), items[Tube1].position) < 800 * 800
    /\ PourRender(TiltInput, masks)

PourTilt == TiltFrame(QuietDraws)

\* frames with the hand above beaker1 open
PourOpen ==
    /\ mounted
    /\ PourRender(OpenInput, QuietDraws)

\* frames in which the tracker saw no hand
PourNoHands ==
    /\ mounted
    /\ PourRender(NoHandsInput, QuietDraws)

NextPour == PourCarry \/ PourTilt \/ PourOpen \/ PourNoHands

SpecPour == InitPour /\ [][NextPour]_vars

(***************************************************************************)
(* SpecParticles: the same pour with either outcome of every Math.random() *)
(***************************************************************************)
\* the pour over beaker1 has one transfer per frame: it spawns or it does not
SpawnDraws == SUBSET {1}

ParticleCarry ==
    /\ mounted
    /\ CarryFrame(SpawnDraws)

ParticleTilt ==
    /\ mounted
    /\ TiltFrame(SpawnDraws)

NextParticles == ParticleCarry \/ ParticleTilt

SpecParticles == InitPour /\ [][NextParticles]_vars

(***************************************************************************)
(* SpecHand: the hand signal processor on one hand, over pinch gaps around  *)
(* the threshold and every count of stretched fingers                       *)
(***************************************************************************)
HandGaps == {0, 20, 48, 50, 52, 100}
HandPoses ==
    {Pose(g, "up", 3, TRUE) : g \in HandGaps}
       \cup {Pose(100, "up", f, t) : f \in -1..3, t \in BOOLEAN}
       \cup {Pose(20, "up", -1, FALSE)}
HandInputs ==
    {[categoryName |-> "Left", landmarks |-> Landmarks(m, p)] :
        m \in {Vec(400, 500, 0), Vec(640, 420, 40)}, p \in HandPoses}
HandOutcomes ==
    {[ok |-> FALSE, hands |-> <<>>], [ok |-> TRUE, hands |-> <<>>]}
       \cup {[ok |-> TRUE, hands |-> <<h>>] : h \in HandInputs}

InitHand ==
    /\ TrackerRunning
    /\ NoScene

HandFrame == \E o \in HandOutcomes : AnimationFrame(o)

NextHand == HandFrame \/ ReadHandState

SpecHand == InitHand /\ [][NextHand]_vars

(***************************************************************************)
(* SpecRemount: the chemistry scene is unmounted and mounted again          *)
(***************************************************************************)
MaxMounts == 2

RemountLabInputs ==
    FreshStates({Hand("Left", 757, 540, PinchDown), Hand("Left", 721, 485, PinchDown),
                 Hand("Left", 721, 485, OpenUp)}, {})
RemountPageInputs ==
    FreshStates({Hand("Left", 790, 500, PinchUp), Hand("Left", 710, 450, PinchDown),
                 Hand("Left", 710, 450, OpenUp)}, {})

RemountRender ==
    /\ renders < MaxRenders
    /\ renders' = renders + 1
    /\ UNCHANGED pourN
    /\ \E hs \in (IF scene = "lab" THEN RemountLabInputs ELSE RemountPageInputs) :
          \E wobble \in Wobbles : \E mask \in QuietDraws : RenderFrame(hs, wobble, mask)

\* The scene component is unmounted and mounted again.  The pouring scene calls
\* useState(INITIAL_ITEMS) with the module-level array: its elements still have
\* their initial heldBy and liquidLevel (frames change copies of the elements),
\* but position, rotation and color are the very objects the frames mutated in
\* place.  The routed page builds its array, and the objects in it, anew.
SceneRemount ==
    /\ scene \in {"lab", "page"}
    /\ mounts < MaxMounts
    /\ mounts' = mounts + 1
    /\ items' = IF scene = "lab"
                THEN [i \in 1..Len(items) |->
                        [INITIAL_ITEMS[i] EXCEPT !.position = items[i].position,
                                                 !.rotation = items[i].rotation,
                                                 !.color = items[i].color]]
                ELSE INITIAL_TUBES
    /\ released' = {}
    /\ renders' = 0
    /\ particles' = <<>>
    /\ UNCHANGED trackerVars
    /\ UNCHANGED <<handStateRef, hsRead, scene, pourN, targetIndex, camRadius, camPhi>>

NextRemount == RemountRender \/ SceneRemount

SpecRemount == InitLab /\ [][NextRemount]_vars

(***************************************************************************)
(* Solar-system scene (src/unnamed/part_001): gesture navigation and the   *)
(* camera radius and polar angle.  The azimuth theta, the planets' angles, *)
(* the look-at point and the camera position are not modelled.             *)
(***************************************************************************)
\* PLANETS[i].size, i = 0..5
PlanetSize == <<4000, 800, 1200, 1300, 1000, 3500>>

\* NavHand that prefers the left hand
NavHand_LeftFirst(hs) == IF hs.leftHand.present THEN hs.leftHand ELSE hs.rightHand

\* const hand = hs.rightHand || hs.leftHand
NavHand(hs) == IF hs.rightHand.present THEN hs.rightHand ELSE hs.leftHand

\* the gesture mapping: newIndex, -1 when no branch matches
NewIndex(gestureType) ==
    IF gestureType = "fist" THEN 0
    ELSE IF gestureType = "one_finger" THEN 1
    ELSE IF gestureType = "two_fingers" THEN 2
    ELSE IF gestureType = "three_fingers" THEN 3
    ELSE IF gestureType = "four_fingers" THEN 4
    ELSE IF gestureType = "open_palm" THEN 5
    ELSE -1

\* targetIndex after the navigation logic (setTargetIndex)
NewTarget(hs, index) ==
    LET hand == NavHand(hs)
    IN IF hand.present /\ ~hand.isPinching
       THEN LET newIndex == NewIndex(hand.gestureType)
            IN IF newIndex # -1 /\ newIndex < Len(PlanetSize) /\ newIndex # index
               THEN newIndex ELSE index
       ELSE index

\* IdealRadius that takes the size of the next planet
IdealRadius_NextPlanet(index) ==
    IF index > 0 THEN PlanetSize[(index % 5) + 2] * 5 + 5000 ELSE 60000

\* idealRadius: 60, or size * 5 + 5 for a planet
IdealRadius(index) == IF index > 0 THEN PlanetSize[index + 1] * 5 + 5000 ELSE 60000

\* OrbitPhi without the clamp of the vertical angle
OrbitPhi_Unclamped(phi, hs, delta) ==
    LET activeHand == IF hs.leftHand.present THEN hs.leftHand ELSE hs.rightHand
    IN IF hs.gesture = "pinch_drag" /\ activeHand.present
       THEN phi + Trunc((activeHand.pinchPosition.y - 500) * delta * 2, 1000)
       ELSE phi

\* Pinch to orbit: phi += dy * delta * sensitivity, clamped to [0.1, pi - 0.1];
\* delta is the frame time in thousandths of a second
OrbitPhi(phi, hs, delta) ==
    LET activeHand == IF hs.leftHand.present THEN hs.leftHand ELSE hs.rightHand
    IN IF hs.gesture = "pinch_drag" /\ activeHand.present
       THEN Max(100, Min(3142 - 100,
                phi + Trunc((activeHand.pinchPosition.y - 500) * delta * 2, 1000)))
       ELSE phi

\* The useFrame callback of the solar system.  The radius is interpolated
\* towards the ideal radius of the targetIndex the callback closed over; the
\* index set in this frame takes effect in the next one.
SolarFrame(hs, delta) ==
    /\ scene = "solar"
    /\ stateRef' = hs
    /\ handStateRef' = handleHandUpdate(handStateRef, hs)
    /\ hsRead' = handStateRef'
    /\ targetIndex' = NewTarget(hsRead', targetIndex)
    /\ camPhi' = OrbitPhi(camPhi, hsRead', delta)
    /\ camRadius' = LerpPct(camRadius, IdealRadius(targetIndex), 5)
    /\ UNCHANGED <<mounted, initPc, landmarkerRef, camPc, stream, videoRef, srcObject,
                   onloadeddata, isReady, requestRef, frames, scene, items, released,
                   renders, pourN, particles, mounts>>

(***************************************************************************)
(* SpecSolar: the solar-system scene under navigation gestures              *)
(***************************************************************************)
SolarRights ==
    {Hand("Right", 500, 500, Pose(100, "up", 2, TRUE)),     \* four fingers
     Hand("Right", 500, 500, Pose(100, "up", -1, FALSE)),   \* closed hand
     Hand("Right", 500, 500, Pose(20, "up", -1, FALSE))}    \* closed hand, pinching
SolarLefts == {Hand("Left", 300, 500, Pose(100, "up", 0, FALSE))}
SolarInputs == FreshStates(SolarLefts, SolarRights)

InitSolar ==
    /\ TrackerRunning
    /\ scene = "solar"
    /\ items = <<>>
    /\ released = {}
    /\ renders = 0
    /\ pourN = 0
    /\ particles = <<>>
    /\ mounts = 1
    /\ targetIndex = 0
    /\ camRadius = 60000
    /\ camPhi = 1257

\* frame times: a slow frame and a frame after a stall
Deltas == {250, 1000}

\* the hands of SolarInputs are at the height of the screen centre, where the
\* frame time has no effect on phi: one frame time is explored
SolarRender ==
    /\ mounted
    /\ \E hs \in SolarInputs : \E delta \in {250} : SolarFrame(hs, delta)

NextSolar == SolarRender

SpecSolar == InitSolar /\ [][NextSolar]_vars

(***************************************************************************)
(* SpecSolarLive: the camera's approach to a planet.  One finger (Mercury)  *)
(* and four fingers (Mars) alternate with pinching and absent hands; the    *)
(* render loop calls the useFrame callback on every animation frame.        *)
(***************************************************************************)
ApproachRights ==
    {Hand("Right", 500, 500, Pose(100, "up", 2, TRUE)),     \* four fingers
     Hand("Right", 500, 500, Pose(20, "up", -1, FALSE))}    \* closed hand, pinching
ApproachInputs == FreshStates(SolarLefts, ApproachRights)

SolarApproach ==
    /\ mounted
    /\ \E hs \in ApproachInputs : \E delta \in {250} : SolarFrame(hs, delta)

NextSolarLive == SolarApproach

SpecSolarLive == InitSolar /\ [][NextSolarLive]_vars /\ WF_vars(SolarApproach)

(***************************************************************************)
(* SpecOrbit: pinch-drag orbiting above and below the screen centre         *)
(***************************************************************************)
OrbitInputs ==
    FreshStates({}, {Hand("Right", 500, 900, PinchUp), Hand("Right", 500, 100, PinchUp),
                     Hand("Right", 500, 500, Pose(100, "up", 2, TRUE))})

OrbitRender ==
    /\ mounted
    /\ \E hs \in OrbitInputs : \E delta \in Deltas : SolarFrame(hs, delta)

NextOrbit == OrbitRender

SpecOrbit == InitSolar /\ [][NextOrbit]_vars

(***************************************************************************)
(* Anatomy scenes: the surgical page (src/unnamed/part_002: heart and       *)
(* needle) and the basic page (src/components/Navbar.tsx: heart).  The      *)
(* objects are the scene's `items`; scale, stitch points, highlights and    *)
(* region selection are not modelled.  `wave` is the value (in thousandths) *)
(* of the clock's sine and cosine terms in the frame.                       *)
(***************************************************************************)
Heart == 1
Needle == 2

SceneObject(type, position) ==
    [type |-> type, position |-> position, rotation |-> Euler(0, 0, 0), active |-> FALSE]

\* the groups start at the origin, unrotated
INITIAL_ANATOMY == << SceneObject("HEART", Vec(0, 0, 0)), SceneObject("NEEDLE", Vec(0, 0, 0)) >>
INITIAL_BASIC == << SceneObject("HEART", Vec(0, 0, 0)) >>

\* THREE.MathUtils.clamp
clamp(v, lo, hi) == Max(lo, Min(hi, v))

\* Vector3.lerp with alpha in thousandths
lerpMilli(v1, v2, alpha) ==
    Vec(v1.x + Trunc((v2.x - v1.x) * alpha, 1000),
        v1.y + Trunc((v2.y - v1.y) * alpha, 1000),
        v1.z + Trunc((v2.z - v1.z) * alpha, 1000))

\* SurgicalNeedle.useFrame
NeedleFrame(needle, hs, wave) ==
    IF hs.rightHand.present /\ hs.rightHand.isPinching
    THEN LET p == hs.rightHand.pinchPosition
             target == Vec((500 - p.x) * 8, (500 - p.y) * 6, p.z * 3)
             adaptiveSpeed == Min(300, 80 + distanceTo(needle.position, target) \div 10)
             moved == lerpMilli(needle.position, target, adaptiveSpeed)
             constrainedRotationZ == clamp(-(HandAngle(hs.rightHand) + 1571), -1047, 1047)
         IN [needle EXCEPT
               !.active = TRUE,
               !.position = Vec(moved.x + Trunc(wave * 2, 1000),
                                moved.y + Trunc(wave * 2, 1000), moved.z),
               !.rotation = Euler(Trunc(wave * 15, 10000), Trunc(wave * 75, 100000),
                                  LerpPct(needle.rotation.z, constrainedRotationZ, 15))]
    ELSE [needle EXCEPT
            !.active = FALSE,
            !.position = lerpMilli(needle.position, Vec(4000, 2000, 2000), 60),
            !.rotation = Euler(LerpPct(needle.rotation.x, 0, 8),
                               LerpPct(needle.rotation.y, 785, 8),
                               LerpPct(needle.rotation.z, 0, 8))]

\* targetPosition of a pinching hand, with the floating motion
HeartTarget(hand, wave) ==
    LET p == hand.pinchPosition
    IN Vec(clamp((500 - p.x) * 4, -3000, 3000),
           clamp((500 - p.y) * 3, -2000, 2000) + Trunc(wave * 50, 1000),
           clamp(p.z * 2, -2000, 2000))

\* targetRotation following a hand's palm, with the momentum terms
HeartTurn(hand, wave) ==
    Euler(Trunc((hand.palmPosition.y - 500) * 2513, 1000) + Trunc(wave * 50, 1000),
          Trunc((hand.palmPosition.x - 500) * 4712, 1000) + Trunc(wave * 100, 1000),
          0)

\* HeartModel.useFrame of the surgical page
HeartFrame(heart, hs, wave) ==
    LET activeHand == IF hs.leftHand.present THEN hs.leftHand ELSE hs.rightHand
        targetPosition ==
          IF hs.rightHand.present /\ hs.rightHand.isPinching
          THEN HeartTarget(hs.rightHand, wave)
          ELSE IF hs.leftHand.present /\ hs.leftHand.isPinching
          THEN HeartTarget(hs.leftHand, wave)
          ELSE Vec(0, 0, 0)
        targetRotation ==
          IF hs.rightHand.present /\ hs.rightHand.isPinching
          THEN Euler(0, 0, 0)
          ELSE IF hs.leftHand.present /\ hs.leftHand.isPinching
          THEN HeartTurn(hs.leftHand, wave)
          ELSE IF hs.gesture = "zoom" /\ hs.leftHand.present /\ hs.rightHand.present
          THEN Euler(0, 0, 0)
          ELSE IF hs.gesture = "rotate" /\ activeHand.present
          THEN IF activeHand.gestureType = "fist"
               THEN Euler(Trunc(wave * 50, 1000), Trunc(wave * 100, 1000), 0)
               ELSE HeartTurn(activeHand, wave)
          ELSE Euler(0, 0, 0)
    IN [heart EXCEPT
          !.position = lerpMilli(heart.position, targetPosition, 120),
          !.rotation = Euler(LerpPct(heart.rotation.x, targetRotation.x, 8),
                             LerpPct(heart.rotation.y, targetRotation.y, 8),
                             heart.rotation.z)]

\* HeartModel.useFrame of the basic page
BasicHeartFrame(heart, hs) ==
    LET activeHand == IF hs.leftHand.present THEN hs.leftHand ELSE hs.rightHand
        p == activeHand.pinchPosition
    IN [heart EXCEPT
          !.rotation =
             IF hs.gesture = "rotate" /\ activeHand.present
             THEN Euler(LerpPct(heart.rotation.x,
                                Trunc((activeHand.palmPosition.y - 500) * 3142, 1000), 5),
                        LerpPct(heart.rotation.y,
                                Trunc((activeHand.palmPosition.x - 500) * 6283, 1000), 5),
                        heart.rotation.z)
             ELSE @,
          !.position =
             IF hs.gesture = "pinch_drag" /\ activeHand.present
             THEN lerpMilli(@, Vec((500 - p.x) * 8, (500 - p.y) * 6, p.z * 3), 100)
             ELSE @]

AnatomyItems(sc, its, hs, wave) ==
    IF sc = "anatomy"
    THEN << HeartFrame(its[Heart], hs, wave), NeedleFrame(its[Needle], hs, wave) >>
    ELSE << BasicHeartFrame(its[Heart], hs) >>

\* One render frame of an anatomy scene: the tracker's latest state is read
\* and every useFrame callback of the scene runs.
AnatomyFrame(hs, wave) ==
    /\ scene \in {"anatomy", "anatomyBasic"}
    /\ stateRef' = hs
    /\ handStateRef' = handleHandUpdate(handStateRef, hs)
    /\ hsRead' = handStateRef'
    /\ items' = AnatomyItems(scene, items, hsRead', wave)
    /\ UNCHANGED <<mounted, initPc, landmarkerRef, camPc, stream, videoRef, srcObject,
                   onloadeddata, isReady, requestRef, frames, scene, released, pourN,
                   particles, mounts, targetIndex, camRadius, camPhi>>

(***************************************************************************)
(* SpecAnatomy: both anatomy scenes, a few render frames                    *)
(***************************************************************************)
AnatomyInputs ==
    FreshStates({Hand("Left", 700, 600, PinchUp)},
                {Hand("Right", 300, 400, PinchUp), Hand("Right", 300, 400, OpenUp)})

Waves == {-1000, 1000}

InitAnatomy ==
    /\ TrackerRunning
    /\ scene \in {"anatomy", "anatomyBasic"}
    /\ items = IF scene = "anatomy" THEN INITIAL_ANATOMY ELSE INITIAL_BASIC
    /\ released = {}
    /\ renders = 0
    /\ pourN = 0
    /\ particles = <<>>
    /\ mounts = 1
    /\ targetIndex = 0
    /\ camRadius = 60000
    /\ camPhi = 1257

AnatomyRender ==
    /\ renders < MaxRenders
    /\ renders' = renders + 1
    /\ \E hs \in AnatomyInputs : \E wave \in Waves : AnatomyFrame(hs, wave)

NextAnatomy == AnatomyRender

SpecAnatomy == InitAnatomy /\ [][NextAnatomy]_vars

(***************************************************************************)
(* Claims about the tracker (specification Spec)                           *)
(***************************************************************************)
\* C1: the (gesture, interactionStrength) written by a detection frame is the
\* first matching rule applied to that frame's two hands: both present, palm
\* distance > 0.2 and neither pinching => ("zoom", distance); exactly one
\* present and pinching => ("pinch_drag", its pinchStrength); exactly one
\* present and not pinching => ("rotate", 0); every other case => ("none", 0).
C1_AggregatedGesture ==
    LET L == stateRef.leftHand
        R == stateRef.rightHand
        got == <<stateRef.gesture, stateRef.interactionStrength>>
        one == IF L.present THEN L ELSE R
    IN IF L.present /\ R.present
       THEN IF DistSq(L.palmPosition, R.palmPosition) > 200 * 200
               /\ ~L.isPinching /\ ~R.isPinching
            THEN got = <<"zoom", distanceTo(L.palmPosition, R.palmPosition)>>
            ELSE got = <<"none", 0>>
       ELSE IF L.present \/ R.present
       THEN IF one.isPinching
            THEN got = <<"pinch_drag", one.pinchStrength>>
            ELSE got = <<"rotate", 0>>
       ELSE got = <<"none", 0>>

\* C1 witness: a detection frame wrote a zoom, and the two hands it wrote are
\* smoothed ones more than 0.2 apart.
C1_Witness ==
    /\ frames = 2
    /\ stateRef.gesture = "zoom"
    /\ stateRef.interactionStrength > 200
    /\ stateRef.leftHand.palmPosition # stateRef.leftHand.landmarks[0]

\* C2: every TrackingState a render callback reads is the page's current
\* reference, which is the initial state or exactly the object the latest
\* completed detection frame wrote (all four fields of one frame).
C2_ReadsOneWholeFrame ==
    [][hsRead' # hsRead =>
          /\ hsRead' = handStateRef
          /\ hsRead' = InitialTrackingState \/ hsRead' = stateRef]_vars

\* C2 witness: a render callback read the first detection frame's state and a
\* second detection frame has replaced it since.
C2_Witness ==
    /\ hsRead # InitialTrackingState
    /\ hsRead # handStateRef
    /\ hsRead.gesture # handStateRef.gesture
    /\ frames = 2

\* C10: once the tracker is unmounted, no acquired camera stream is live.
C10_StreamStoppedAfterUnmount ==
    ~mounted => stream # "live"

(***************************************************************************)
(* Claims about grabbing and releasing (specification SpecLab)             *)
(***************************************************************************)
\* handPos and the capture radius of the mounted scene
WorldPos(hand) == IF scene = "lab" THEN LabHandPos(hand) ELSE PageHandPos(hand)
InReach(hand, item) ==
    IF scene = "lab"
    THEN DistSq(LabHandPos(hand), item.position)
            < LabGrabDistance(item) * LabGrabDistance(item)
    ELSE DistSq(PageHandPos(hand), item.position) < 1000 * 1000
Pinches(hand) == hand.present /\ hand.isPinching

\* C3: after every render frame, a vessel is held by side S only if hand S is
\* present and pinching in the TrackingState that frame read; a frame in which
\* hand S reports no pinch leaves no vessel held by S.
C3_HeldOnlyWhilePinching ==
    \A i \in 1..Len(items) : \A S \in {"Left", "Right"} :
        items[i].heldBy = S => Pinches(HandOf(hsRead, S))

C5_ReleaseOnce ==
    [][\A i \in 1..Len(items) :
          /\ \A S \in {"Left", "Right"} :
                (items[i].heldBy = S /\ ~Pinches(HandOf(hsRead', S)))
                   => (items'[i].heldBy # S /\ i \in released')
          /\ i \in released' => items[i].heldBy # "null"]_vars

\* C9: a render frame that reads a TrackingState without hands leaves every
\* vessel as it was (heldBy, position, rotation, liquidLevel, color).
C9_NoHandsNoChange ==
    [][(~hsRead'.leftHand.present /\ ~hsRead'.rightHand.present) => items' = items]_vars

(***************************************************************************)
(* Claims about pouring, two hands (specification SpecLab)                 *)
(***************************************************************************)
\* In the frame being taken, vessel i is held and tilted beyond 1.0 rad and
\* vessel j is within 2.5 of it and more than 1 lower.  The frame leaves the
\* positions, rotations and holders it computed in items'.
TiltedOver(i, j) ==
    /\ i # j
    /\ items'[i].heldBy # "null"
    /\ Abs(items'[i].rotation.z) > 1000
    /\ PourCondition(items'[i], items'[j])

C6_LevelsInUnitRange ==
    \A i \in 1..Len(items) : 0 <= items[i].liquidLevel /\ items[i].liquidLevel <= 1000

\* C8: after N frames with tube1 held and tilted over beaker1, and no other
\* vessel touched, beaker1 holds min(1, 0.015 N) and tube1 max(0, 0.7 - 0.015 N).
C8_EndToEndPour ==
    (/\ scene = "lab"
     /\ \A i \in 1..Len(items) :
           i \notin {Tube1, Beaker1} => items[i].liquidLevel = INITIAL_ITEMS[i].liquidLevel)
    => /\ items[Beaker1].liquidLevel = Min(1000, 15 * pourN)
       /\ items[Tube1].liquidLevel = Max(0, 700 - 15 * pourN)

(***************************************************************************)
(* Claims about tracking failures (specification Spec)                     *)
(***************************************************************************)
\* C11: once getUserMedia has been rejected, tracking is inactive for the
\* mount: no detection frame has run or is scheduled, onUpdate was never
\* called (every TrackingState, also the one render frames read, is the
\* initial one), no stream exists, and the acquisition is never started again.
C11_CameraDeniedIsTerminal ==
    /\ [](camPc = "denied" =>
             /\ frames = 0
             /\ ~requestRef /\ ~onloadeddata /\ ~isReady
             /\ stream = "none" /\ ~srcObject
             /\ stateRef = InitialTrackingState
             /\ handStateRef = InitialTrackingState
             /\ hsRead = InitialTrackingState)
    /\ [][camPc = "denied" => camPc' = "denied"]_vars

\* the camera was refused and the page is still mounted with its model loaded
C11_Witness ==
    /\ camPc = "denied"
    /\ mounted
    /\ landmarkerRef
    /\ initPc = "started"

\* the detection loop died in predict: the camera is attached, loadeddata has
\* fired, the component is mounted, and no animation frame is scheduled
DetectionFailed ==
    /\ mounted
    /\ camPc = "attached"
    /\ ~onloadeddata
    /\ ~requestRef

\* C12: after a detection call has failed, the TrackingState that render
\* frames read has no hands and gesture 'none'.
C12_FailureMeansNoHands ==
    DetectionFailed =>
        /\ ~handStateRef.leftHand.present
        /\ ~handStateRef.rightHand.present
        /\ handStateRef.gesture = "none"

(***************************************************************************)
(* Claims about the hand signal processor (specification SpecHand)         *)
(***************************************************************************)
PresentHands(ts) == {h \in {ts.leftHand, ts.rightHand} : h.present}

\* C13: with d the distance of thumb tip and index tip in the frame,
\* isPinching holds exactly when d < 0.05, pinchStrength is
\* max(0, 1 - d/0.05), and it lies in [0,1].
C13_PinchMath ==
    \A h \in PresentHands(stateRef) :
        LET d == ISqrt(DistSq(h.landmarks[4], h.landmarks[8]))
        IN /\ h.isPinching <=> d < 50
           /\ h.pinchStrength = IF d >= 50 THEN 0 ELSE 1000 - 20 * d
           /\ 0 <= h.pinchStrength /\ h.pinchStrength <= 1000

\* a hand exactly at the threshold distance: not pinching, strength 0
C13_Witness ==
    \E h \in PresentHands(stateRef) :
        /\ DistSq(h.landmarks[4], h.landmarks[8]) = 50 * 50
        /\ ~h.isPinching
        /\ h.pinchStrength = 0

\* C14: extendedFingers is in 0..5 and gestureType is 'fist' when pinching,
\* else by the count: 1 one_finger, 2 two_fingers, 3 three_fingers,
\* 4 four_fingers, 5 and 0 open_palm.
C14_GestureTable ==
    \A h \in PresentHands(stateRef) :
        /\ h.extendedFingers \in 0..5
        /\ h.gestureType =
              CASE h.isPinching -> "fist"
                [] ~h.isPinching /\ h.extendedFingers = 1 -> "one_finger"
                [] ~h.isPinching /\ h.extendedFingers = 2 -> "two_fingers"
                [] ~h.isPinching /\ h.extendedFingers = 3 -> "three_fingers"
                [] ~h.isPinching /\ h.extendedFingers = 4 -> "four_fingers"
                [] ~h.isPinching /\ h.extendedFingers \in {0, 5} -> "open_palm"

\* a closed hand that does not pinch is labelled open_palm
C14_Witness ==
    \E h \in PresentHands(stateRef) :
        /\ h.extendedFingers = 0
        /\ ~h.isPinching
        /\ h.gestureType = "open_palm"

\* one coordinate of a smoothing step from p towards the raw value r:
\* n = p + 0.15 (r - p) up to the fixed-point rounding, between p and r
SmoothedCoord(p, r, n) ==
    /\ Abs(100 * (n - p) - 15 * (r - p)) < 100
    /\ Min(p, r) <= n /\ n <= Max(p, r)
    /\ Abs(r - n) <= Abs(r - p)
SmoothedVec(P, R, N) ==
    /\ SmoothedCoord(P.x, R.x, N.x)
    /\ SmoothedCoord(P.y, R.y, N.y)
    /\ SmoothedCoord(P.z, R.z, N.z)

C18_ParticlesCapped ==
    /\ [](/\ Len(particles) <= 25
          /\ \A k \in 1..Len(particles) - 1 : particles[k + 1].id = particles[k].id + 1)
    /\ [][\A k \in 1..Len(particles) :
             (\E n \in 1..Len(particles') : particles'[n].id = particles[k].id)
             \/ (\A n \in 1..Len(particles') : particles'[n].id > particles[k].id)]_vars

\* a full queue whose oldest entries have been discarded
C18_Witness ==
    /\ Len(particles) = 25
    /\ particles[1].id > 1
    /\ particles[25].id = particles[1].id + 24

(***************************************************************************)
(* Claims about remounting the scene (specification SpecRemount)           *)
(***************************************************************************)
\* C19: right after the chemistry scene has been mounted again, every vessel
\* has its initial position, rotation, color, liquidLevel and heldBy = null.
C19_RemountIsFresh ==
    (mounts > 1 /\ renders = 0) =>
        items = IF scene = "lab" THEN INITIAL_ITEMS ELSE INITIAL_TUBES

\* C20: after every render frame, a vessel held by side S whose hand S is
\* pinching is at hand S's mapped position.
C20_HeldFollowsHand ==
    \A i \in 1..Len(items) : \A S \in {"Left", "Right"} :
        (items[i].heldBy = S /\ Pinches(HandOf(hsRead, S)))
           => items[i].position = WorldPos(HandOf(hsRead, S))


(***************************************************************************)
(* Claims about the solar-system scene (SpecSolar, SpecSolarLive)           *)
(***************************************************************************)
\* the navigation hand shows the given gesture and does not pinch
Shows(hs, gestureType) ==
    LET hand == NavHand(hs)
    IN hand.present /\ ~hand.isPinching /\ hand.gestureType = gestureType

C17_FistSelectsWholeSystem ==
    [][(NavHand(hsRead').present /\ NavHand(hsRead').gestureType = "fist")
          => targetIndex' = 0]_vars

(***************************************************************************)
(* Claims about release, colour mixing and grabbing in the chemistry scenes *)
(***************************************************************************)
\* C21: a vessel released in a render frame has rotation (0,0,0) after the
\* frame, lies at table level or below (position.y <= -1.5), and is no farther
\* from the rack slot nearest to its old horizontal position than before.
C21_ReleaseSnapsBack ==
    [][\A i \in released' :
          LET slot == NearestRack(items[i].position.x, 2, RackPositions[1])
          IN /\ items'[i].rotation = Euler(0, 0, 0)
             /\ items'[i].position.y <= -1500
             /\ Abs(items'[i].position.x - slot) <= Abs(items[i].position.x - slot)]_vars

\* In the frame being taken vessel i, with liquid, pours into vessel j; i
\* receives nothing and j neither pours nor receives from another vessel.
OnlyPour(i, j) ==
    /\ scene = "lab"
    /\ TiltedOver(i, j)
    /\ items[i].liquidLevel > 0
    /\ \A k \in 1..Len(items) :
          /\ ~(TiltedOver(k, i) /\ items[k].liquidLevel > 0)
          /\ ~TiltedOver(j, k)
          /\ (TiltedOver(k, j) /\ items[k].liquidLevel > 0) => k = i

\* channel n is channel c moved towards s by 0.1 (up to the rounding)
BlendedChannel(c, s, n) ==
    /\ Abs(100 * (n - c) - 10 * (s - c)) < 100
    /\ Min(c, s) <= n /\ n <= Max(c, s)

\* C22 as stated: the first transfer into a vessel (which still has its
\* initial level and colour) replaces its colour by the source colour.
C22_FirstTransferReplaces ==
    [][\A i \in 1..Len(items) : \A j \in 1..Len(items) :
          (/\ OnlyPour(i, j)
           /\ items[j].liquidLevel = INITIAL_ITEMS[j].liquidLevel
           /\ items[j].color = INITIAL_ITEMS[j].color)
          => items'[j].color = items[i].color]_vars

\* C22 by level: a transfer into a vessel whose level is at most 0.05 replaces
\* its colour by the source colour; a transfer into a vessel with more liquid
\* moves each colour channel towards the source colour by 0.1 of the
\* difference.  beaker1, empty at the start, has the source's colour after the
\* first transfer into it.
C22_ColourByLevel ==
    [][\A i \in 1..Len(items) : \A j \in 1..Len(items) :
          OnlyPour(i, j) =>
             /\ items[j].liquidLevel <= 50 => items'[j].color = items[i].color
             /\ items[j].liquidLevel > 50 =>
                   /\ BlendedChannel(items[j].color.r, items[i].color.r, items'[j].color.r)
                   /\ BlendedChannel(items[j].color.g, items[i].color.g, items'[j].color.g)
                   /\ BlendedChannel(items[j].color.b, items[i].color.b, items'[j].color.b)
             /\ (j = Beaker1 /\ items[j].liquidLevel = 0)
                   => items'[j].color = items[i].color]_vars

\* tube2 has been blended towards tube1's red, and beaker1 has taken a colour
C22_Witness ==
    /\ scene = "lab"
    /\ items[2].liquidLevel > 600
    /\ items[2].color \notin {INITIAL_ITEMS[2].color, items[1].color}
    /\ items[Beaker1].liquidLevel > 0
    /\ items[Beaker1].color # INITIAL_ITEMS[Beaker1].color

(***************************************************************************)
(* Claims about the anatomy scenes (specification SpecAnatomy)              *)
(***************************************************************************)
\* some hand of the tracking state pinches
AnyPinch(hs) ==
    \/ hs.leftHand.present /\ hs.leftHand.isPinching
    \/ hs.rightHand.present /\ hs.rightHand.isPinching

\* C23: in the render frame of an anatomy scene in which the hands stop
\* pinching (a hand pinched in the frame before, none does now), the heart
\* and the needle keep the position they had before the frame.
C23_NoSnapBack ==
    [][(/\ scene \in {"anatomy", "anatomyBasic"}
        /\ AnyPinch(hsRead)
        /\ ~AnyPinch(hsRead'))
       => \A i \in 1..Len(items) : items'[i].position = items[i].position]_vars

(***************************************************************************)
(* Claims about hand slots and smoothing (specification Spec)               *)
(***************************************************************************)
\* the positions of hand new are the raw values of its frame
RawPositions(new) ==
    /\ new.palmPosition = new.landmarks[0]
    /\ new.pinchPosition = PinchMid(new.landmarks[4], new.landmarks[8])

\* the positions of hand new are blended from those of hand old
BlendedPositions(old, new) ==
    /\ SmoothedVec(old.palmPosition, new.landmarks[0], new.palmPosition)
    /\ SmoothedVec(old.pinchPosition, PinchMid(new.landmarks[4], new.landmarks[8]),
                   new.pinchPosition)

\* C24: in a detection frame that writes a TrackingState, a hand in slot S
\* is blended against the hand that was in slot S before the frame, and when
\* slot S was empty before the frame its palm and pinch positions are exactly
\* the raw values, whatever the other slot held.
C24_SmoothingByLabel ==
    [][(frames' = frames + 1 /\ requestRef') =>
          \A S \in {"Left", "Right"} :
             LET old == HandOf(stateRef, S)
                 new == HandOf(stateRef', S)
             IN new.present =>
                   IF old.present THEN BlendedPositions(old, new)
                   ELSE RawPositions(new)]_vars

\* after the render frame read a state with only a Left hand, a detection
\* frame blended the Left hand and took a new Right hand raw, at another place
C24_Witness ==
    /\ frames = 2
    /\ hsRead.leftHand.present /\ ~hsRead.rightHand.present
    /\ stateRef.leftHand.present /\ stateRef.rightHand.present
    /\ stateRef.leftHand.palmPosition # stateRef.leftHand.landmarks[0]
    /\ RawPositions(stateRef.rightHand)
    /\ stateRef.rightHand.landmarks[0] # hsRead.leftHand.landmarks[0]

\* the TrackingState written for the detector result `result` after `prev`
\* keeps, for two hands of one label, only the second
KeepsLater(result, prev) ==
    LET ts == NewTrackingState(result, prev)
        S == result[2].categoryName
        kept == HandOf(ts, S)
        old == HandOf(prev, S)
    IN /\ kept.present
       /\ kept.landmarks = result[2].landmarks
       /\ ~HandOf(ts, OtherSide(S)).present
       /\ IF old.present THEN BlendedPositions(old, kept) ELSE RawPositions(kept)

\* C25: the Left slot only holds hands labelled Left and the Right slot never
\* holds one; and whatever TrackingState has been written, a detector result
\* with two hands of one label leaves only the later hand, in the slot of its
\* label, smoothed against that slot's previous hand, and the other slot empty.
C25_OneHandPerSide ==
    /\ stateRef.leftHand.present => stateRef.leftHand.handedness = "Left"
    /\ stateRef.rightHand.present => stateRef.rightHand.handedness # "Left"
    /\ \A h1 \in TrackerHands : \A h2 \in TrackerHands :
          h1.categoryName = h2.categoryName => KeepsLater(<<h1, h2>>, stateRef)

\* the state written comes from two different Left hands reported in one
\* frame after a frame with a Left and a Right hand
C25_Witness ==
    /\ frames = 2
    /\ hsRead.leftHand.present /\ hsRead.rightHand.present
    /\ ~stateRef.rightHand.present
    /\ \E h1 \in TrackerHands : \E h2 \in TrackerHands :
          /\ h1.categoryName = "Left" /\ h2.categoryName = "Left"
          /\ h1.landmarks[0] # h2.landmarks[0]
          /\ stateRef = NewTrackingState(<<h1, h2>>, hsRead)

(***************************************************************************)
(* Claims about the camera angle and target selection of the solar system   *)
(***************************************************************************)
\* C26: the polar angle phi is within [0.1, pi - 0.1] and targetIndex is an
\* index 0..5 of the planet table, in every reachable state.
C26_PhiClamped ==
    /\ 100 <= camPhi /\ camPhi <= 3042
    /\ targetIndex \in 0..5

\* the pinch-drag has pushed phi to an end of its range, Mars selected
C26_Witness ==
    /\ targetIndex = 4
    /\ camPhi \in {100, 3042}
    /\ hsRead.gesture = "pinch_drag"

C28_NeverProduced ==
    LET hands == {h \in {stateRef.leftHand, stateRef.rightHand} : h.present}
    IN /\ stateRef.gesture \in {"none", "rotate", "pinch_drag", "zoom"}
       /\ \A h \in hands :
             /\ h.gestureType # "none"
             /\ h.gestureType = "fist" <=> h.isPinching
       /\ stateRef.gesture = "rotate" =>
             /\ stateRef.leftHand.present # stateRef.rightHand.present
             /\ \A h \in hands : h.gestureType # "fist"

\* a single hand that does not pinch: gesture 'rotate', labelled by its finger count
C28_Witness ==
    /\ stateRef.gesture = "rotate"
    /\ stateRef.rightHand.present /\ ~stateRef.leftHand.present
    /\ stateRef.rightHand.gestureType \in
          {"one_finger", "two_fingers", "three_fingers", "four_fingers", "open_palm"}
    /\ frames = 2

(***************************************************************************)
(* Claims about multiple grabs and reactions (specification SpecBench)      *)
(***************************************************************************)
\* C29: in a render frame, every vessel that was unheld and within the
\* capture radius of a pinching Left hand is held by Left after the frame and
\* lies at the Left hand's mapped position, however many there are and
\* whether or not the Right hand pinches within reach of it too; the same
\* holds for the Right hand and the vessels the Left hand did not take.
C29_GrabsEveryVesselInReach ==
    [][\A i \in 1..Len(items) :
          LET left == hsRead'.leftHand
              right == hsRead'.rightHand
              byLeft == Pinches(left) /\ InReach(left, items[i])
              byRight == Pinches(right) /\ InReach(right, items[i])
          IN items[i].heldBy = "null" =>
                /\ byLeft => /\ items'[i].heldBy = "Left"
                             /\ items'[i].position = WorldPos(left)
                /\ (byRight /\ ~byLeft) => /\ items'[i].heldBy = "Right"
                                           /\ items'[i].position = WorldPos(right)]_vars

\* the Left hand holds two vessels at its position, which both hands reached
C29_Witness ==
    /\ Pinches(hsRead.leftHand) /\ Pinches(hsRead.rightHand)
    /\ WorldPos(hsRead.rightHand) # WorldPos(hsRead.leftHand)
    /\ items[1].heldBy = "Left" /\ items[2].heldBy = "Left"
    /\ items[1].position = WorldPos(hsRead.leftHand)
    /\ items[2].position = WorldPos(hsRead.leftHand)
    /\ InReach(hsRead.rightHand, items[1])

\* tubes i and j are closer than 1.5 after the hands have moved them
Close(i, j) == i # j /\ DistSq(items'[i].position, items'[j].position) < 1500 * 1500

\* C30: on the routed page a tube's liquidLevel only goes down, in a frame by
\* 0.01 for each reaction step it takes part in, and only if it is above 0.1
\* and closer than 1.5 to another tube above 0.1; it never exceeds its
\* initial value and never falls to 0.09 or below.  Every reaction step thus
\* lowers two levels that are bounded below, so only finitely many steps
\* can be taken.
C30_ReactionsStop ==
    /\ [](scene = "page" =>
            \A i \in 1..Len(items) :
               /\ items[i].liquidLevel <= INITIAL_TUBES[i].liquidLevel
               /\ items[i].liquidLevel > 90)
    /\ [][scene = "page" =>
            \A i \in 1..Len(items) :
               LET partners == {j \in 1..Len(items) :
                                   Close(i, j) /\ items[j].liquidLevel > 100}
                   drop == items[i].liquidLevel - items'[i].liquidLevel
               IN /\ drop >= 0
                  /\ drop > 0 => /\ items[i].liquidLevel > 100
                                 /\ partners # {}
                                 /\ drop % 10 = 0
                                 /\ drop <= 10 * Cardinality(partners)
                  /\ (items[i].liquidLevel > 100 /\ partners # {}) => drop > 0
                  /\ drop > 0 => \E j \in partners :
                                    items'[j].liquidLevel < items[j].liquidLevel]_vars

\* the first two tubes have reacted down to 0.1, lying within 1.5 of each other
C30_Witness ==
    /\ scene = "page"
    /\ items[1].liquidLevel = 200
    /\ items[2].liquidLevel = 100
    /\ DistSq(items[1].position, items[2].position) < 1500 * 1500

============================================================================
